---- MODULE Spec2Model ----
(***************************************************************************)
(* Batch Submission Retry Controller of Atlas-OCR (src/cdk/bin/app.ts).    *)
(* The controller is a declarative Step Functions workflow; the model      *)
(* executes its states one at a time on the workflow's JSON state `$`.     *)
(* Both source variants of the helper (lines 29-252 and 254-475) are       *)
(* modelled; `variant` selects the one a run executes.                     *)
(***************************************************************************)
EXTENDS Integers, Sequences, FiniteSets, TLC

(***************************************************************************)
(* JSON values are tagged: t is the JSON type, v the payload.  An object's *)
(* payload is a function from key strings to JSON values.                  *)
(***************************************************************************)
JStr(s) == [t |-> "str", v |-> s]
JNum(n) == [t |-> "num", v |-> n]
JNull == [t |-> "null", v |-> 0]
JObj(f) == [t |-> "obj", v |-> f]
EmptyObj == JObj([k \in {} |-> JNull])

\* a JSONPath lookup of one key: the key exists in an object
HasKey(x, k) == x.t = "obj" /\ k \in DOMAIN x.v

\* the path p (a sequence of keys) resolves in x
RECURSIVE PathExists(_, _)
PathExists(x, p) ==
  IF p = <<>> THEN TRUE
  ELSE HasKey(x, Head(p)) /\ PathExists(x.v[Head(p)], Tail(p))

\* the value at path p of x (p resolves)
RECURSIVE PathGet(_, _)
PathGet(x, p) == IF p = <<>> THEN x ELSE PathGet(x.v[Head(p)], Tail(p))

\* resultPath "$.k": the state with key k set to x
PutKey(o, k, x) ==
  JObj([kk \in (DOMAIN o.v) \cup {k} |-> IF kk = k THEN x ELSE o.v[kk]])

\* a merge in which the keys of a win
JsonMergeFirstWins(a, b) ==
  JObj([k \in (DOMAIN a.v) \cup (DOMAIN b.v) |->
          IF k \in DOMAIN a.v THEN a.v[k] ELSE b.v[k]])

\* a merge in which an empty string of b does not replace the value of a
JsonMergeSkipsEmpty(a, b) ==
  JObj([k \in (DOMAIN a.v) \cup (DOMAIN b.v) |->
          IF k \in DOMAIN b.v /\ ~(k \in DOMAIN a.v /\ b.v[k] = JStr(""))
          THEN b.v[k] ELSE a.v[k]])

\* States.JsonMerge(a, b, false): shallow merge, keys of b win
JsonMerge(a, b) ==
  JObj([k \in (DOMAIN a.v) \cup (DOMAIN b.v) |->
          IF k \in DOMAIN b.v THEN b.v[k] ELSE a.v[k]])

(***************************************************************************)
(* Strings.                                                                *)
(***************************************************************************)
\* the character at position i of s, "" outside the string
Ch(s, i) == IF i >= 1 /\ i <= Len(s) THEN SubSeq(s, i, i) ELSE ""

\* the end of the literal run of pattern p that starts at j (no "*" in it)
LiteralEnd(p, j) ==
  CHOOSE e \in j..Len(p) :
    /\ \A m \in j..e : Ch(p, m) # "*"
    /\ (e = Len(p) \/ Ch(p, e + 1) = "*")

\* Condition.stringMatches: glob match of s from i against pattern p from j,
\* where "*" matches any run of characters
RECURSIVE GlobFrom(_, _, _, _)
GlobFrom(s, i, p, j) ==
  IF j > Len(p) THEN i > Len(s)
  ELSE IF Ch(p, j) = "*"
       THEN \E k \in i..(Len(s) + 1) : GlobFrom(s, k, p, j + 1)
       ELSE LET e == LiteralEnd(p, j)
                n == e - j + 1
            IN /\ i + n - 1 <= Len(s)
               /\ SubSeq(s, i, i + n - 1) = SubSeq(p, j, e)
               /\ GlobFrom(s, i + n, p, e + 1)

\* a Choice rule StringMatches on a JSON value: false for a non-string
StringMatches(x, p) == x.t = "str" /\ GlobFrom(x.v, 1, p, 1)

(***************************************************************************)
(* States.StringToJson, for the JSON texts the model feeds it: one flat    *)
(* object whose member values are strings (without escapes) or null, with  *)
(* optional blanks between tokens.  Any other text fails to parse.         *)
(***************************************************************************)
\* the first position at or after i that holds no blank
SkipWs(s, i) ==
  CHOOSE k \in i..(Len(s) + 1) :
    /\ Ch(s, k) # " "
    /\ \A m \in i..(k - 1) : Ch(s, m) = " "

\* position of the first double quote at or after i, 0 when there is none
ScanQuote(s, i) ==
  IF \E k \in i..Len(s) : Ch(s, k) = "\""
  THEN CHOOSE k \in i..Len(s) :
         /\ Ch(s, k) = "\""
         /\ \A m \in i..(k - 1) : Ch(s, m) # "\""
  ELSE 0

ParseFail == [ok |-> FALSE, val |-> JNull, next |-> 0]

\* a string literal starting at i
ParseString(s, i) ==
  IF Ch(s, i) # "\"" THEN ParseFail
  ELSE LET j == ScanQuote(s, i + 1)
       IN IF j = 0 THEN ParseFail
          ELSE [ok |-> TRUE, val |-> JStr(SubSeq(s, i + 1, j - 1)), next |-> j + 1]

\* a member value starting at i: a string or null
ParseValue(s, i) ==
  IF Ch(s, i) = "\"" THEN ParseString(s, i)
  ELSE IF i + 3 <= Len(s) /\ SubSeq(s, i, i + 3) = "null"
       THEN [ok |-> TRUE, val |-> JNull, next |-> i + 4]
       ELSE ParseFail

\* the element of a one-element set: {F(x) : x \in {e}} computes e once
Only(S) == CHOOSE x \in S : TRUE

\* members from i (a key is expected at i), collected into acc: the key, the
\* colon, the value, then "," and the next member or "}" and the end
RECURSIVE ParseMembers(_, _, _)
ParseMembers(s, i, acc) ==
  Only({
    IF ~key.ok THEN ParseFail
    ELSE Only({
      IF Ch(s, colon) # ":" THEN ParseFail
      ELSE Only({
        IF ~val.ok THEN ParseFail
        ELSE Only({
          IF Ch(s, after) = ","
          THEN Only({ParseMembers(s, nxt, PutKey(acc, key.val.v, val.val)) :
                       nxt \in {SkipWs(s, after + 1)}})
          ELSE IF Ch(s, after) = "}" /\ SkipWs(s, after + 1) > Len(s)
               THEN [ok |-> TRUE, val |-> PutKey(acc, key.val.v, val.val),
                     next |-> Len(s) + 1]
               ELSE ParseFail
          : after \in {SkipWs(s, val.next)}})
        : val \in {ParseValue(s, SkipWs(s, colon + 1))}})
      : colon \in {SkipWs(s, key.next)}})
    : key \in {ParseString(s, i)}})

StringToJson(s) ==
  Only({
    IF Ch(s, open) # "{" THEN ParseFail
    ELSE Only({
      IF Ch(s, first) = "}"
      THEN IF SkipWs(s, first + 1) > Len(s)
           THEN [ok |-> TRUE, val |-> EmptyObj, next |-> Len(s) + 1]
           ELSE ParseFail
      ELSE ParseMembers(s, first, EmptyObj)
      : first \in {SkipWs(s, open + 1)}})
    : open \in {SkipWs(s, 1)}})

(***************************************************************************)
(* Configuration of the deployed workflow.                                 *)
(***************************************************************************)
DEPLOYMENT_VERSION == "v1"

DEFAULT_PARAMS ==
  JObj([instance_type |-> JStr("ml.g5.xlarge"),
        input_prefix |-> JStr("incoming/"),
        output_prefix |-> JStr("processed/runs/1/")])

ParamFields == {"instance_type", "input_prefix", "output_prefix"}

inputBucket == "dotsocr-input-documents"
outputBucket == "dotsocr-processed-results"

\* the retry budget compared by checkRetryLimit
MaxRetryAttempts == 10

MaxRetriesCause == "Exceeded maximum retry attempts (10) for capacity/throttling errors"

\* glob patterns of the classifier's Choice rules
StructuredPattern == "{*"
CapacityPatternBroad == "*Error*"
CapacityPattern == "*CapacityError*"
ThrottlingPatternPrefix == "ThrottlingException*"
ThrottlingPattern == "*ThrottlingException*"

\* how the task state waits on the job it creates
integrationPatternRequestResponse == "REQUEST_RESPONSE"
integrationPattern == "RUN_JOB"

(***************************************************************************)
(* States.Format: each "{}" of the template is replaced by the next        *)
(* argument.                                                               *)
(***************************************************************************)
\* position of the first "{}" of tpl, 0 when there is none
FirstHole(tpl) ==
  IF \E k \in 1..(Len(tpl) - 1) : SubSeq(tpl, k, k + 1) = "{}"
  THEN CHOOSE k \in 1..(Len(tpl) - 1) :
         /\ SubSeq(tpl, k, k + 1) = "{}"
         /\ \A m \in 1..(k - 1) : SubSeq(tpl, m, m + 1) # "{}"
  ELSE 0

RECURSIVE Format(_, _)
Format(tpl, args) ==
  LET h == FirstHole(tpl)
  IN IF h = 0 \/ args = <<>> THEN tpl
     ELSE SubSeq(tpl, 1, h - 1) \o Head(args)
            \o Format(SubSeq(tpl, h + 2, Len(tpl)), Tail(args))

Min(a, b) == IF a < b THEN a ELSE b

\* String.prototype.substring(0, n)
Substring0(s, n) == SubSeq(s, 1, Min(n, Len(s)))

\* first variant: "{}-ocr-{}-{}" of base.substring(0, 20), version, execution name
buildTransformJobName1(base, exec) ==
  Format("{}-ocr-{}-{}", <<Substring0(base, 20), DEPLOYMENT_VERSION, exec>>)

\* a second variant that puts no separator before the attempt number
buildTransformJobName2Joined(truncatedBase, suffix, exec, retryCount) ==
  Format(truncatedBase \o "-" \o suffix \o "-" \o DEPLOYMENT_VERSION \o "-{}{}",
         <<exec, ToString(retryCount)>>)

\* a second variant that leaves the execution name out
buildTransformJobName2NoExecution(truncatedBase, suffix, exec, retryCount) ==
  Format(truncatedBase \o "-" \o suffix \o "-" \o DEPLOYMENT_VERSION \o "-{}",
         <<ToString(retryCount)>>)

\* second variant: `${truncatedBase}-${suffix}-${DEPLOYMENT_VERSION}-{}-{}` of
\* execution name and $.retryCount; the caller passes jobNameBase as it is
buildTransformJobName2(truncatedBase, suffix, exec, retryCount) ==
  Format(truncatedBase \o "-" \o suffix \o "-" \o DEPLOYMENT_VERSION \o "-{}-{}",
         <<exec, ToString(retryCount)>>)

\* a counter copy that forgets to add
MathAddKeeps(a, b) == a

\* States.MathAdd
MathAdd(a, b) == a + b

(***************************************************************************)
(* Inputs of a run.                                                        *)
(***************************************************************************)
\* how many failure signals the service may deliver again for attempts that
\* already ended
MaxLate == 1

\* values a caller may give to each field
OverrideValues ==
  [instance_type |-> {"ml.g4dn.xlarge"},
   input_prefix |-> {"incoming/batchA/", ""},
   output_prefix |-> {"processed/batchA/"}]

AllOverrideValues == UNION {OverrideValues[k] : k \in ParamFields}

\* execution inputs holding any subset of the three fields
FieldInputs ==
  UNION {{JObj([k \in S |-> JStr(f[k])]) :
            f \in {g \in [S -> AllOverrideValues] : \A k \in S : g[k] \in OverrideValues[k]}} :
         S \in SUBSET ParamFields}

\* execution inputs that also carry keys the workflow uses internally
ExtraKeyInputs ==
  {JObj([input_prefix |-> JStr("incoming/batchA/"), retryCount |-> JNum(99)]),
   JObj([retryCount |-> JNum(99),
         input |-> JObj([instance_type |-> JStr("ml.p4d.24xlarge")]),
         cause |-> JObj([Cause |-> JStr("ThrottlingException")])]),
   JObj([output_prefix |-> JStr("processed/batchA/"),
         defaults |-> JObj([instance_type |-> JStr("ml.p4d.24xlarge"),
                            input_prefix |-> JStr("other/"),
                            output_prefix |-> JStr("other-out/")]),
         merged |-> JObj([input_prefix |-> JStr("other/")])])}

CallerInputs == FieldInputs \cup ExtraKeyInputs

\* $$.Execution.Name of the runs considered
ExecutionNames == {"batch-a", "7f3c1e9a-5b2d-4c8e-9f10-2a6b7c8d9e0f"}

\* raw causes the Job Execution Service may report
Causes ==
  {"{\"FailureReason\":\"ClientError: CapacityError: no capacity\"}",
   "{\"FailureReason\":\"ModelError: bad input\"}",
   "{ \"TransformJobStatus\" : \"Failed\", \"FailureReason\" : \"CapacityError\" }",
   "{\"Note\":\"CapacityError\",\"FailureReason\":\"AlgorithmError: exit 1\"}",
   "{\"FailureReason\":\"ThrottlingException: slow down\"}",
   "{\"FailureReason\":\"\"}",
   "{\"FailureReason\":null}",
   "{\"TransformJobStatus\":\"Failed\"}",
   "{}",
   "{not valid json",
   "{\"FailureReason\":\"CapacityError",
   "Rate exceeded: ThrottlingException",
   "ThrottlingException",
   "InsufficientCapacityError: none left",
   "Some other message",
   ""}

NoCause == "<none>"

\* raw causes considered when two runs interleave: retryable, non-retryable
\* structured, null FailureReason, plain
PairCauses ==
  {"{\"FailureReason\":\"ClientError: CapacityError: no capacity\"}",
   "{\"FailureReason\":\"ModelError: bad input\"}",
   "{\"FailureReason\":null}",
   "Some other message"}

(***************************************************************************)
(* State of one run.                                                       *)
(***************************************************************************)
VARIABLES
  variant,      \* 1 or 2: the source variant the run executes
  callerInput,  \* the execution input
  execName,     \* $$.Execution.Name
  jobNameBase,  \* props.jobNameBase
  pc,           \* the workflow state about to run, or the execution status
  state,        \* the workflow's JSON state `$`
  error,        \* error name of a failed execution
  errCause,     \* cause text of a failed execution
  submissions,  \* the CreateTransformJob requests issued, in order
  outcome,      \* per submission: "Pending", "Succeeded", "Failed", "Stopped"
  lastCause,    \* raw cause of the last failure the task state caught
  waits,        \* number of WaitBeforeRetry states completed
  lateSignals,  \* per failure signal delivered again: the status it arrived in
  timedOutIn,   \* the workflow state the timeout interrupted, "" if none
  nmAttempts,   \* job namer alone: the two attempt numbers named
  nmNames,      \* job namer alone: the names computed, <<>> before
  nmOther,      \* job namer alone: the name of another execution
  peer          \* two runs: <<the suspended run's state>>, <<>> for one run

\* variables no workflow state writes
namerVars == <<timedOutIn, nmAttempts, nmNames, nmOther, peer>>

vars == <<variant, callerInput, execName, jobNameBase, pc, state, error, errCause,
          submissions, outcome, lastCause, waits, lateSignals, timedOutIn, nmAttempts,
          nmNames, nmOther, peer>>

Terminal == {"SUCCEEDED", "FAILED", "TIMED_OUT"}

\* the causes the service may report to the run
SignalCauses == IF peer = <<>> THEN Causes ELSE PairCauses

\* failure signals delivered again so far, over the runs considered
LateCount ==
  Len(lateSignals) + (IF peer = <<>> THEN 0 ELSE Len(peer[1].lateSignals))

InFlight == {j \in DOMAIN outcome : outcome[j] = "Pending"}

Init ==
  /\ variant \in {1, 2}
  /\ callerInput \in CallerInputs
  /\ execName \in ExecutionNames
  /\ jobNameBase = "DotsOCR"
  /\ pc = "InjectDefaults"
  /\ state = callerInput
  /\ error = ""
  /\ errCause = ""
  /\ submissions = <<>>
  /\ outcome = <<>>
  /\ lastCause = NoCause
  /\ waits = 0
  /\ lateSignals = <<>>
  /\ timedOutIn = ""
  /\ nmAttempts = <<0, 0>>
  /\ nmNames = <<>>
  /\ nmOther = ""
  /\ peer = <<>>

\* the execution fails with error e and cause c
FailWith(e, c) ==
  /\ pc' = "FAILED"
  /\ error' = e
  /\ errCause' = c
  /\ UNCHANGED <<variant, callerInput, execName, jobNameBase, state, submissions,
                 outcome, lastCause, waits, lateSignals, namerVars>>

\* a state that only rewrites `$` and moves on
PassTo(next, newState) ==
  /\ pc' = next
  /\ state' = newState
  /\ UNCHANGED <<variant, callerInput, execName, jobNameBase, error, errCause,
                 submissions, outcome, lastCause, waits, lateSignals, namerVars>>

\* a Choice state: `$` is left alone
GoTo(next) == PassTo(next, state)

\* the engine's error for a path that does not resolve
RuntimeError == FailWith("States.Runtime", "Invalid path")

(***************************************************************************)
(* Parameter resolution.                                                   *)
(***************************************************************************)
\* a defaults injection that keeps a `defaults` key of the execution input
injectDefaultsKeepsCaller ==
  /\ pc = "InjectDefaults"
  /\ PassTo("MergeParams",
            IF HasKey(state, "defaults") THEN state
            ELSE PutKey(state, "defaults", DEFAULT_PARAMS))

injectDefaults ==
  /\ pc = "InjectDefaults"
  /\ PassTo("MergeParams", PutKey(state, "defaults", DEFAULT_PARAMS))

mergeParams ==
  /\ pc = "MergeParams"
  /\ PassTo("SelectParams", JObj([merged |-> JsonMerge(state.v.defaults, state)]))

\* first variant: the keys are the dotted names "input.instance_type", ...
SelectedParams1(merged) ==
  JObj([k \in {"input.instance_type", "input.input_prefix", "input.output_prefix"} |->
          IF k = "input.instance_type" THEN merged.v.instance_type
          ELSE IF k = "input.input_prefix" THEN merged.v.input_prefix
          ELSE merged.v.output_prefix])

\* a selection that crosses the two prefixes
SelectedParams2Swapped(merged) ==
  JObj([instance_type |-> merged.v.instance_type,
        input_prefix |-> merged.v.output_prefix,
        output_prefix |-> merged.v.input_prefix])

\* second variant: the three fields at the top level
SelectedParams2(merged) ==
  JObj([instance_type |-> merged.v.instance_type,
        input_prefix |-> merged.v.input_prefix,
        output_prefix |-> merged.v.output_prefix])

selectParams ==
  /\ pc = "SelectParams"
  /\ IF \A k \in ParamFields : PathExists(state, <<"merged", k>>)
     THEN PassTo("InitRetryCounter",
                 IF variant = 1 THEN SelectedParams1(state.v.merged)
                 ELSE SelectedParams2(state.v.merged))
     ELSE RuntimeError

(***************************************************************************)
(* Retry logic.                                                            *)
(***************************************************************************)
\* a counter that starts at one
initRetryCounterFromOne ==
  /\ pc = "InitRetryCounter"
  /\ PassTo("PrepareBatchInput", JObj([retryCount |-> JNum(1), input |-> state]))

initRetryCounter ==
  /\ pc = "InitRetryCounter"
  /\ PassTo("PrepareBatchInput", JObj([retryCount |-> JNum(0), input |-> state]))

\* an input preparation that starts the counter again
PreparedInputResetsCounter(st) ==
  JObj([instance_type |-> st.v.input.v.instance_type,
        input_prefix |-> st.v.input.v.input_prefix,
        output_prefix |-> st.v.input.v.output_prefix,
        retryCount |-> JNum(0),
        input |-> st.v.input])

\* prepareBatchInput: the three fields flattened, $.retryCount and $.input kept
PreparedInput(st) ==
  JObj([instance_type |-> st.v.input.v.instance_type,
        input_prefix |-> st.v.input.v.input_prefix,
        output_prefix |-> st.v.input.v.output_prefix,
        retryCount |-> st.v.retryCount,
        input |-> st.v.input])

prepareBatchInput ==
  /\ pc = "PrepareBatchInput"
  /\ IF /\ \A k \in ParamFields : PathExists(state, <<"input", k>>)
        /\ PathExists(state, <<"retryCount">>)
     THEN PassTo("Transform", PreparedInput(state))
     ELSE RuntimeError


\* a retry step that rebuilds $.input from the defaults
IncrementedStateFromDefaults(st) ==
  JObj([retryCount |-> JNum(MathAdd(st.v.retryCount.v, 1)), input |-> DEFAULT_PARAMS])

\* a retry step that writes the counter into `$` and keeps the rest
IncrementedStateKeepsCause(st) ==
  PutKey(st, "retryCount", JNum(MathAdd(st.v.retryCount.v, 1)))

\* incrementRetry: the whole state is rebuilt from $.retryCount and $.input
IncrementedState(st) ==
  JObj([retryCount |-> JNum(MathAdd(st.v.retryCount.v, 1)), input |-> st.v.input])

incrementRetry ==
  /\ pc = "IncrementRetry"
  /\ IF PathExists(state, <<"retryCount">>) /\ PathExists(state, <<"input">>)
     THEN PassTo("CheckRetryLimit", IncrementedState(state))
     ELSE RuntimeError

\* a limit test with a strict comparison
RetryLimitReachedStrict(rc) == rc > MaxRetryAttempts

\* Condition.numberGreaterThanEquals("$.retryCount", 10)
RetryLimitReached(rc) == rc >= MaxRetryAttempts

\* a limit check that resubmits without the wait
checkRetryLimitNoWait ==
  /\ pc = "CheckRetryLimit"
  /\ IF ~PathExists(state, <<"retryCount">>) THEN RuntimeError
     ELSE IF state.v.retryCount.t = "num" /\ RetryLimitReached(state.v.retryCount.v)
          THEN GoTo("MaxRetriesExceeded")
          ELSE GoTo("PrepareBatchInput")

checkRetryLimit ==
  /\ pc = "CheckRetryLimit"
  /\ IF ~PathExists(state, <<"retryCount">>) THEN RuntimeError
     ELSE IF state.v.retryCount.t = "num" /\ RetryLimitReached(state.v.retryCount.v)
          THEN GoTo("MaxRetriesExceeded")
          ELSE GoTo("WaitBeforeRetry")

maxRetriesExceeded ==
  /\ pc = "MaxRetriesExceeded"
  /\ FailWith("MaxRetriesExceeded", MaxRetriesCause)

waitBeforeRetry ==
  /\ pc = "WaitBeforeRetry"
  /\ pc' = "PrepareBatchInput"
  /\ waits' = waits + 1
  /\ UNCHANGED <<variant, callerInput, execName, jobNameBase, state, error, errCause,
                 submissions, outcome, lastCause, lateSignals, namerVars>>

(***************************************************************************)
(* Failure classification.                                                 *)
(***************************************************************************)
routeCauseFormat ==
  /\ pc = "RouteCauseFormat"
  /\ IF ~PathExists(state, <<"cause", "Cause">>) THEN RuntimeError
     ELSE IF StringMatches(state.v.cause.v.Cause, StructuredPattern)
          THEN GoTo("ParseErrorCause")
          ELSE GoTo("CheckThrottling")

\* a parse step that treats text it cannot parse as a plain cause
parseErrorCauseLenient ==
  /\ pc = "ParseErrorCause"
  /\ LET parsed == StringToJson(state.v.cause.v.Cause.v)
     IN IF ~parsed.ok
        THEN GoTo("CheckThrottling")
        ELSE PassTo("CheckCapacityError",
                    PutKey(state, "cause",
                           JObj([Error |-> state.v.cause.v.Error,
                                 Cause |-> state.v.cause.v.Cause,
                                 Parsed |-> parsed.val])))

parseErrorCause ==
  /\ pc = "ParseErrorCause"
  /\ LET parsed == StringToJson(state.v.cause.v.Cause.v)
     IN IF ~parsed.ok
        THEN FailWith("States.IntrinsicFailure", "States.StringToJson: invalid JSON")
        ELSE PassTo("CheckCapacityError",
                    PutKey(state, "cause",
                           JObj([Error |-> state.v.cause.v.Error,
                                 Cause |-> state.v.cause.v.Cause,
                                 Parsed |-> parsed.val])))

\* a capacity check that falls through to the throttling check
checkCapacityErrorThenThrottling ==
  /\ pc = "CheckCapacityError"
  /\ IF ~PathExists(state, <<"cause", "Parsed", "FailureReason">>) THEN RuntimeError
     ELSE IF StringMatches(state.v.cause.v.Parsed.v.FailureReason, CapacityPattern)
          THEN GoTo("IncrementRetry")
          ELSE GoTo("CheckThrottling")

checkCapacityError ==
  /\ pc = "CheckCapacityError"
  /\ IF ~PathExists(state, <<"cause", "Parsed", "FailureReason">>) THEN RuntimeError
     ELSE IF StringMatches(state.v.cause.v.Parsed.v.FailureReason, CapacityPattern)
          THEN GoTo("IncrementRetry")
          ELSE GoTo("CheckFailureReasonPresent")

checkFailureReasonPresent ==
  /\ pc = "CheckFailureReasonPresent"
  /\ IF ~PathExists(state, <<"cause", "Parsed", "FailureReason">>) THEN RuntimeError
     ELSE IF state.v.cause.v.Parsed.v.FailureReason.t = "null"
          THEN GoTo("FailureReasonUnknown")
          ELSE GoTo("NonCapacityFailureParsed")

checkThrottling ==
  /\ pc = "CheckThrottling"
  /\ IF StringMatches(state.v.cause.v.Cause, ThrottlingPattern)
     THEN GoTo("IncrementRetry")
     ELSE GoTo("NonCapacityFailureString")

\* a Fail state that surfaces the raw cause text
nonCapacityFailParsedRaw ==
  /\ pc = "NonCapacityFailureParsed"
  /\ FailWith("NonCapacityFailure", state.v.cause.v.Cause.v)

nonCapacityFailParsed ==
  /\ pc = "NonCapacityFailureParsed"
  /\ IF state.v.cause.v.Parsed.v.FailureReason.t = "str"
     THEN FailWith("NonCapacityFailure", state.v.cause.v.Parsed.v.FailureReason.v)
     ELSE RuntimeError

nonCapacityFailString ==
  /\ pc = "NonCapacityFailureString"
  /\ FailWith("NonCapacityFailure", state.v.cause.v.Cause.v)

failureReasonUnknown ==
  /\ pc = "FailureReasonUnknown"
  /\ FailWith("NonCapacityFailure", "Unknown failure")

(***************************************************************************)
(* The transform task and the Job Execution Service.                       *)
(***************************************************************************)
\* the job name the task computes in the run's variant
TransformJobName(v, base, exec, st) ==
  IF v = 1 THEN buildTransformJobName1(base, exec)
  ELSE buildTransformJobName2(base, "dots", exec, st.v.retryCount.v)

\* the CreateTransformJob request built from `$`
TransformRequest(v, base, exec, st) ==
  [jobName |-> TransformJobName(v, base, exec, st),
   attempt |-> st.v.retryCount.v,
   params |-> [k \in ParamFields |-> st.v.input.v[k]],
   s3Uri |-> Format("s3://{}/{}", <<inputBucket, st.v.input.v.input_prefix.v>>),
   s3OutputPath |-> Format("s3://{}/{}", <<outputBucket, st.v.input.v.output_prefix.v>>)]

\* the task's result, which replaces `$` when the job completes
TransformResult(req) ==
  JObj([TransformJobName |-> JStr(req.jobName),
        TransformJobStatus |-> JStr("Completed"),
        S3OutputPath |-> JStr(req.s3OutputPath)])

\* the task state is entered: the request is sent and, with RUN_JOB, the
\* execution suspends until the job ends
batchTask ==
  /\ pc = "Transform"
  /\ IF /\ \A k \in ParamFields : PathExists(state, <<"input", k>>)
        /\ PathExists(state, <<"retryCount">>)
     THEN LET req == TransformRequest(variant, jobNameBase, execName, state)
          IN /\ submissions' = Append(submissions, req)
             /\ outcome' = Append(outcome, "Pending")
             /\ IF integrationPattern = "RUN_JOB"
                THEN pc' = "TransformWait" /\ state' = state
                ELSE pc' = "SUCCEEDED" /\ state' = TransformResult(req)
             /\ UNCHANGED <<variant, callerInput, execName, jobNameBase, error,
                            errCause, lastCause, waits, lateSignals, namerVars>>
     ELSE RuntimeError

\* a handler that takes a signal in any state
AcceptsSignalAlways(p, j, cur) == TRUE

\* a task state that matches signals against the wrong job
AcceptsSignalOffByOne(p, j, cur) == p = "TransformWait" /\ j = cur + 1

\* the task state takes a signal only while it waits, and only for its own job
AcceptsSignal(p, j, cur) == p = "TransformWait" /\ j = cur

\* batchTask.addCatch: the error output goes to $.cause, then routeCauseFormat
Caught(raw) ==
  /\ pc' = "RouteCauseFormat"
  /\ state' = PutKey(state, "cause",
                     JObj([Error |-> JStr("States.TaskFailed"), Cause |-> JStr(raw)]))
  /\ lastCause' = raw

jobSucceeded ==
  \E j \in InFlight :
    /\ outcome' = [outcome EXCEPT ![j] = "Succeeded"]
    /\ IF AcceptsSignal(pc, j, Len(submissions))
       THEN pc' = "SUCCEEDED" /\ state' = TransformResult(submissions[j])
       ELSE UNCHANGED <<pc, state>>
    /\ UNCHANGED <<variant, callerInput, execName, jobNameBase, error, errCause,
                   submissions, lastCause, waits, lateSignals, namerVars>>

jobFailed ==
  \E j \in InFlight :
    /\ outcome' = [outcome EXCEPT ![j] = "Failed"]
    /\ IF AcceptsSignal(pc, j, Len(submissions))
       THEN \E raw \in SignalCauses : Caught(raw)
       ELSE UNCHANGED <<pc, state, lastCause>>
    /\ UNCHANGED <<variant, callerInput, execName, jobNameBase, error, errCause,
                   submissions, waits, lateSignals, namerVars>>

\* the service delivers a failure signal again for an attempt that already failed
lateFailure ==
  \E j \in DOMAIN outcome :
    /\ outcome[j] = "Failed"
    /\ LateCount < MaxLate
    /\ lateSignals' = Append(lateSignals, IF pc \in Terminal THEN pc ELSE "RUNNING")
    /\ IF AcceptsSignal(pc, j, Len(submissions))
       THEN \E raw \in SignalCauses : Caught(raw)
       ELSE UNCHANGED <<pc, state, lastCause>>
    /\ UNCHANGED <<variant, callerInput, execName, jobNameBase, error, errCause,
                   submissions, outcome, waits, namerVars>>

\* a timeout that only covers the wait for the job
timeoutTaskOnly ==
  /\ pc = "TransformWait"
  /\ pc' = "TIMED_OUT"
  /\ timedOutIn' = pc
  /\ error' = "States.Timeout"
  /\ errCause' = ""
  /\ \/ outcome' = outcome
     \/ outcome' = [j \in DOMAIN outcome |->
                      IF outcome[j] = "Pending" THEN "Stopped" ELSE outcome[j]]
  /\ UNCHANGED <<variant, callerInput, execName, jobNameBase, state, submissions,
                 lastCause, waits, lateSignals, nmAttempts, nmNames, nmOther, peer>>

\* timeout: Duration.hours(2) can elapse in any state of a running execution;
\* the job in flight, if any, is stopped or left to end by itself
timeout ==
  /\ pc \notin Terminal
  /\ pc' = "TIMED_OUT"
  /\ timedOutIn' = pc
  /\ error' = "States.Timeout"
  /\ errCause' = ""
  /\ \/ outcome' = outcome
     \/ outcome' = [j \in DOMAIN outcome |->
                      IF outcome[j] = "Pending" THEN "Stopped" ELSE outcome[j]]
  /\ UNCHANGED <<variant, callerInput, execName, jobNameBase, state, submissions,
                 lastCause, waits, lateSignals, nmAttempts, nmNames, nmOther, peer>>

Next ==
  \/ injectDefaults
  \/ mergeParams
  \/ selectParams
  \/ initRetryCounter
  \/ prepareBatchInput
  \/ batchTask
  \/ jobSucceeded
  \/ jobFailed
  \/ lateFailure
  \/ timeout
  \/ routeCauseFormat
  \/ parseErrorCause
  \/ checkCapacityError
  \/ checkFailureReasonPresent
  \/ checkThrottling
  \/ nonCapacityFailParsed
  \/ nonCapacityFailString
  \/ failureReasonUnknown
  \/ incrementRetry
  \/ checkRetryLimit
  \/ maxRetriesExceeded
  \/ waitBeforeRetry

Spec == Init /\ [][Next]_vars

(***************************************************************************)
(* The job namer alone: both variants applied to two attempt numbers of    *)
(* one execution and to an attempt of another execution.                   *)
(***************************************************************************)
JobNameBases == {"DotsOCR", "", "dotsocr-document-layout-parser"}

\* $$.Execution.Name: a caller-chosen name or the UUID the service assigns
NamerExecutionNames == ExecutionNames \cup {"batch-a1"}

NameInit ==
  /\ variant \in {1, 2}
  /\ callerInput = EmptyObj
  /\ execName \in NamerExecutionNames
  /\ nmOther \in NamerExecutionNames
  /\ jobNameBase \in JobNameBases
  /\ pc = "Namer"
  /\ state = EmptyObj
  /\ error = ""
  /\ errCause = ""
  /\ submissions = <<>>
  /\ outcome = <<>>
  /\ lastCause = NoCause
  /\ waits = 0
  /\ lateSignals = <<>>
  /\ timedOutIn = ""
  /\ nmAttempts \in (0..MaxRetryAttempts) \X (0..MaxRetryAttempts)
  /\ nmNames = <<>>
  /\ peer = <<>>

nameAttempts ==
  /\ pc = "Namer"
  /\ nmNames = <<>>
  /\ nmNames' = <<TransformJobName(variant, jobNameBase, execName,
                                   JObj([retryCount |-> JNum(nmAttempts[1])])),
                  TransformJobName(variant, jobNameBase, execName,
                                   JObj([retryCount |-> JNum(nmAttempts[2])])),
                  TransformJobName(variant, jobNameBase, nmOther,
                                   JObj([retryCount |-> JNum(nmAttempts[2])]))>>
  /\ UNCHANGED <<variant, callerInput, execName, jobNameBase, pc, state, error,
                 errCause, submissions, outcome, lastCause, waits, lateSignals,
                 timedOutIn, nmAttempts, nmOther, peer>>

NameNext == nameAttempts

NameSpec == NameInit /\ [][NameNext]_vars

(***************************************************************************)
(* Two executions of the same state machine, interleaved: each execution   *)
(* has its own `$`, its own name and its own jobs.                         *)
(***************************************************************************)
PairInputs ==
  <<JObj([instance_type |-> JStr("ml.g4dn.xlarge")]),
    JObj([input_prefix |-> JStr("incoming/batchA/")])>>

\* the state of the run that is taking steps
RunState ==
  [callerInput |-> callerInput, execName |-> execName, pc |-> pc, state |-> state,
   error |-> error, errCause |-> errCause, submissions |-> submissions,
   outcome |-> outcome, lastCause |-> lastCause, waits |-> waits,
   lateSignals |-> lateSignals, timedOutIn |-> timedOutIn]

\* a run that has just been started
StartedRun(input, name) ==
  [callerInput |-> input, execName |-> name, pc |-> "InjectDefaults", state |-> input,
   error |-> "", errCause |-> "", submissions |-> <<>>, outcome |-> <<>>,
   lastCause |-> NoCause, waits |-> 0, lateSignals |-> <<>>, timedOutIn |-> ""]

PairInit ==
  /\ variant \in {1, 2}
  /\ jobNameBase = "DotsOCR"
  /\ callerInput = PairInputs[1]
  /\ state = PairInputs[1]
  /\ execName = "batch-a"
  /\ pc = "InjectDefaults"
  /\ error = ""
  /\ errCause = ""
  /\ submissions = <<>>
  /\ outcome = <<>>
  /\ lastCause = NoCause
  /\ waits = 0
  /\ lateSignals = <<>>
  /\ timedOutIn = ""
  /\ nmAttempts = <<0, 0>>
  /\ nmNames = <<>>
  /\ nmOther = ""
  /\ peer = <<StartedRun(PairInputs[2], "7f3c1e9a-5b2d-4c8e-9f10-2a6b7c8d9e0f")>>

\* the engine turns to the other execution
switchRun ==
  /\ peer # <<>>
  /\ peer' = <<RunState>>
  /\ callerInput' = peer[1].callerInput
  /\ execName' = peer[1].execName
  /\ pc' = peer[1].pc
  /\ state' = peer[1].state
  /\ error' = peer[1].error
  /\ errCause' = peer[1].errCause
  /\ submissions' = peer[1].submissions
  /\ outcome' = peer[1].outcome
  /\ lastCause' = peer[1].lastCause
  /\ waits' = peer[1].waits
  /\ lateSignals' = peer[1].lateSignals
  /\ timedOutIn' = peer[1].timedOutIn
  /\ UNCHANGED <<variant, jobNameBase, nmAttempts, nmNames, nmOther>>

\* the steps of the two executions, each signal delivered once
PairNext ==
  \/ injectDefaults
  \/ mergeParams
  \/ selectParams
  \/ initRetryCounter
  \/ prepareBatchInput
  \/ batchTask
  \/ jobSucceeded
  \/ jobFailed
  \/ timeout
  \/ routeCauseFormat
  \/ parseErrorCause
  \/ checkCapacityError
  \/ checkFailureReasonPresent
  \/ checkThrottling
  \/ nonCapacityFailParsed
  \/ nonCapacityFailString
  \/ failureReasonUnknown
  \/ incrementRetry
  \/ checkRetryLimit
  \/ maxRetriesExceeded
  \/ waitBeforeRetry
  \/ switchRun

PairSpec == PairInit /\ [][PairNext]_vars

(***************************************************************************)
(* One run under the scheduling the engine and the service provide.        *)
(***************************************************************************)
\* the states the engine runs by itself, one after the other
EngineStep ==
  \/ injectDefaults
  \/ mergeParams
  \/ selectParams
  \/ initRetryCounter
  \/ prepareBatchInput
  \/ batchTask
  \/ routeCauseFormat
  \/ parseErrorCause
  \/ checkCapacityError
  \/ checkFailureReasonPresent
  \/ checkThrottling
  \/ nonCapacityFailParsed
  \/ nonCapacityFailString
  \/ failureReasonUnknown
  \/ incrementRetry
  \/ checkRetryLimit
  \/ maxRetriesExceeded
  \/ waitBeforeRetry

\* the service's terminal signal for a job in flight
ServiceSignal == jobSucceeded \/ jobFailed

\* a run in which the engine keeps running states, the wait elapses and the
\* service signals the end of every job; the timeout may or may not fire
FairInit ==
  /\ variant \in {1, 2}
  /\ callerInput \in {EmptyObj, PairInputs[2]}
  /\ execName = "batch-a"
  /\ jobNameBase = "DotsOCR"
  /\ pc = "InjectDefaults"
  /\ state = callerInput
  /\ error = ""
  /\ errCause = ""
  /\ submissions = <<>>
  /\ outcome = <<>>
  /\ lastCause = NoCause
  /\ waits = 0
  /\ lateSignals = <<>>
  /\ timedOutIn = ""
  /\ nmAttempts = <<0, 0>>
  /\ nmNames = <<>>
  /\ nmOther = ""
  /\ peer = <<>>

FairSpec ==
  /\ FairInit
  /\ [][Next]_vars
  /\ WF_vars(EngineStep)
  /\ WF_vars(ServiceSignal)

(***************************************************************************)
(* Reference definitions used by the properties.                           *)
(***************************************************************************)
\* sub occurs in s
Contains(s, sub) ==
  \E i \in 1..(Len(s) - Len(sub) + 1) : SubSeq(s, i, i + Len(sub) - 1) = sub

\* the classification of a raw cause as the design states it (spec 4.3)
Classify(raw) ==
  IF raw = "" THEN [kind |-> "terminal", reason |-> "Unknown failure"]
  ELSE IF Ch(raw, 1) = "{"
  THEN LET parsed == StringToJson(raw)
       IN IF ~parsed.ok THEN [kind |-> "malformed", reason |-> ""]
          ELSE IF HasKey(parsed.val, "FailureReason")
                  /\ parsed.val.v.FailureReason.t = "str"
          THEN IF Contains(parsed.val.v.FailureReason.v, "CapacityError")
               THEN [kind |-> "retryable", reason |-> ""]
               ELSE [kind |-> "terminal", reason |-> parsed.val.v.FailureReason.v]
          ELSE [kind |-> "terminal", reason |-> "Unknown failure"]
  ELSE IF Contains(raw, "ThrottlingException")
       THEN [kind |-> "retryable", reason |-> ""]
       ELSE [kind |-> "terminal", reason |-> raw]

\* the workflow state the run is in, or was in when the timeout fired
Position == IF pc = "TIMED_OUT" THEN timedOutIn ELSE pc

\* the run has set up its retry counter and still holds it in `$`
HasCounter ==
  /\ Position \notin {"InjectDefaults", "MergeParams", "SelectParams",
                      "InitRetryCounter", "Namer"}
  /\ HasKey(state, "retryCount")

retryCount == state.v.retryCount.v

\* per-key resolution of the execution input against the defaults
ExpectedParams(O) ==
  [k \in ParamFields |-> IF HasKey(O, k) THEN O.v[k] ELSE DEFAULT_PARAMS.v[k]]

\* workflow states on the retry path, and those on the way to NonCapacityFailure
RetryPath ==
  {"IncrementRetry", "CheckRetryLimit", "WaitBeforeRetry", "PrepareBatchInput",
   "Transform", "TransformWait", "MaxRetriesExceeded", "SUCCEEDED"}

TerminalPath ==
  {"CheckFailureReasonPresent", "CheckThrottling", "NonCapacityFailureParsed",
   "NonCapacityFailureString", "FailureReasonUnknown"}

\* structured cause texts whose FailureReason is the string fr
WithReason(fr) ==
  {"{\"FailureReason\":\"" \o fr \o "\"}",
   "{ \"TransformJobStatus\" : \"Failed\", \"FailureReason\" : \"" \o fr \o "\" }",
   "{\"Note\":\"CapacityError\",\"FailureReason\":\"" \o fr \o "\"}"}

Reasons ==
  {"ClientError: CapacityError: no capacity", "ModelError: bad input", "CapacityError",
   "AlgorithmError: exit 1", "ThrottlingException: slow down", ""}

(***************************************************************************)
(* Properties.                                                             *)
(***************************************************************************)
\* C1: a run whose failures are all retryable issues exactly 11 submissions
\* (the first and 10 retries) before it ends with MaxRetriesExceeded, and no
\* run issues a 12th.
C1_ElevenSubmissions ==
  /\ Len(submissions) <= MaxRetryAttempts + 1
  /\ (pc = "FAILED" /\ error = "MaxRetriesExceeded")
       => Len(submissions) = MaxRetryAttempts + 1

\* C2: retryCount never exceeds 10; at retryCount = 10 the run can only go to
\* terminal failure; no submission carries an attempt number above 10.
C2_RetryCountBounded ==
  /\ \A i \in DOMAIN submissions : submissions[i].attempt <= MaxRetryAttempts
  /\ HasCounter =>
       /\ retryCount <= MaxRetryAttempts
       /\ retryCount = MaxRetryAttempts =>
            Position \in {"CheckRetryLimit", "MaxRetriesExceeded", "FAILED"}

C2_Witness ==
  /\ HasCounter /\ retryCount = MaxRetryAttempts
  /\ pc = "FAILED" /\ error = "MaxRetriesExceeded"

\* C3: every submission of a run carries the parameters resolved from the
\* execution input at the start, field for field, whatever happened between.
C3_ParamsStable ==
  \A i \in DOMAIN submissions :
    /\ submissions[i].params = ExpectedParams(callerInput)
    /\ \A j \in DOMAIN submissions : submissions[i].params = submissions[j].params

C3_Witness ==
  /\ Len(submissions) >= 3
  /\ HasKey(callerInput, "input_prefix") /\ ~HasKey(callerInput, "output_prefix")
  /\ submissions[3].params.input_prefix = JStr("incoming/batchA/")
  /\ submissions[3].params.output_prefix = JStr("processed/runs/1/")

\* C4: in each variant the job names of two different attempt numbers of one
\* execution differ, and equal attempt numbers give equal names.
C4_NamesDifferAcrossAttempts ==
  nmNames # <<>> =>
    /\ nmAttempts[1] # nmAttempts[2] => nmNames[1] # nmNames[2]
    /\ nmAttempts[1] = nmAttempts[2] => nmNames[1] = nmNames[2]

\* C5: within a run the attempt number of each submission is strictly greater
\* than that of every earlier submission, so no (execution, attempt) pair is
\* submitted twice.
C5_AttemptsStrictlyIncrease ==
  \A i, j \in DOMAIN submissions :
    i < j => submissions[i].attempt < submissions[j].attempt

C5_Witness ==
  /\ Len(submissions) >= 4
  /\ submissions[4].attempt = 3

\* C6: at most one submission of a run is in flight, the run leaves the task
\* state only when its job has ended, and every submission but the last has
\* received its failure signal.
C6_Sequential ==
  /\ Cardinality(InFlight) <= 1
  /\ InFlight # {} => Position = "TransformWait"
  /\ \A i \in 1..(Len(submissions) - 1) : outcome[i] = "Failed"

C6_Witness ==
  /\ Len(submissions) = 3
  /\ pc = "TransformWait"
  /\ InFlight = {3}

\* a step taken from a terminal status leaves the run as it is
TerminalStepKeepsRun ==
  pc \in Terminal =>
    /\ pc' = pc
    /\ state' = state
    /\ error' = error
    /\ errCause' = errCause
    /\ submissions' = submissions
    /\ lastCause' = lastCause
    /\ waits' = waits

\* C7: once the run is Succeeded, failed or timed out, nothing of it changes
\* any more and no submission is issued, also when a failure signal of an
\* earlier attempt arrives afterwards.
C7_TerminalAbsorbing == [][TerminalStepKeepsRun]_vars

C7_Witness ==
  /\ pc = "SUCCEEDED"
  /\ \E i \in DOMAIN lateSignals : lateSignals[i] = "SUCCEEDED"

\* C8: after a failure that the classifier calls non-retryable the run ends
\* with NonCapacityFailure and the classifier's reason, retryCount unchanged,
\* without a wait or a further submission.
C8_NonRetryableSurfaced ==
  (lastCause # NoCause /\ Classify(lastCause).kind = "terminal") =>
    /\ pc \notin RetryPath
    /\ pc = "FAILED" =>
         /\ error = "NonCapacityFailure"
         /\ errCause = Classify(lastCause).reason
         /\ retryCount = submissions[Len(submissions)].attempt

\* C9: MaxRetriesExceeded is reported only after a retryable last failure and
\* always with the fixed cause text; NonCapacityFailure only after a
\* non-retryable last failure.
C9_NotConflated ==
  pc = "FAILED" =>
    /\ error = "MaxRetriesExceeded" =>
         /\ lastCause # NoCause
         /\ Classify(lastCause).kind = "retryable"
         /\ errCause = "Exceeded maximum retry attempts (10) for capacity/throttling errors"
    /\ error = "NonCapacityFailure" =>
         /\ lastCause # NoCause
         /\ Classify(lastCause).kind = "terminal"

C9_Witness ==
  /\ pc = "FAILED"
  /\ error = "MaxRetriesExceeded"
  /\ lastCause = "Rate exceeded: ThrottlingException"

\* C10: a structured cause with a string FailureReason is retried exactly when
\* the FailureReason contains "CapacityError"; when it is not retried the run
\* fails with NonCapacityFailure and the FailureReason itself as cause.
C10_StructuredCause ==
  \A fr \in Reasons :
    lastCause \in WithReason(fr) =>
      /\ pc \in RetryPath => Contains(fr, "CapacityError")
      /\ pc \in TerminalPath => ~Contains(fr, "CapacityError")
      /\ pc = "FAILED" =>
           IF Contains(fr, "CapacityError")
           THEN error = "MaxRetriesExceeded"
           ELSE error = "NonCapacityFailure" /\ errCause = fr

C10_Witness ==
  /\ pc = "FAILED"
  /\ lastCause = "{\"Note\":\"CapacityError\",\"FailureReason\":\"AlgorithmError: exit 1\"}"
  /\ errCause = "AlgorithmError: exit 1"

\* plain cause texts: not empty and not starting with "{"
PlainCauses ==
  {"Rate exceeded: ThrottlingException", "ThrottlingException",
   "InsufficientCapacityError: none left", "Some other message"}

\* C11: a non-empty cause that does not start with "{" is retried exactly when
\* it contains "ThrottlingException"; when it is not retried the run fails
\* with NonCapacityFailure and the raw cause itself as cause.
C11_PlainCause ==
  lastCause \in PlainCauses =>
    /\ pc \notin {"ParseErrorCause", "CheckCapacityError", "CheckFailureReasonPresent",
                  "NonCapacityFailureParsed", "FailureReasonUnknown"}
    /\ pc \in RetryPath => Contains(lastCause, "ThrottlingException")
    /\ pc = "NonCapacityFailureString" => ~Contains(lastCause, "ThrottlingException")
    /\ pc = "FAILED" =>
         IF Contains(lastCause, "ThrottlingException")
         THEN error = "MaxRetriesExceeded"
         ELSE error = "NonCapacityFailure" /\ errCause = lastCause

C11_Witness ==
  /\ pc = "FAILED"
  /\ lastCause = "InsufficientCapacityError: none left"
  /\ error = "NonCapacityFailure"
  /\ errCause = "InsufficientCapacityError: none left"

\* C12: an empty raw cause is not retried and the run fails with
\* NonCapacityFailure and the cause text "Unknown failure".
C12_EmptyCause ==
  lastCause = "" =>
    /\ pc \notin RetryPath
    /\ pc = "FAILED" => (error = "NonCapacityFailure" /\ errCause = "Unknown failure")

\* structured cause texts that parse and hold no FailureReason, or a null one
AbsentReasonCauses == {"{\"TransformJobStatus\":\"Failed\"}", "{}"}
NullReasonCauses == {"{\"FailureReason\":null}"}

\* C13: a structured cause that parses and whose FailureReason is absent or
\* null is not retried and the run fails with NonCapacityFailure and the
\* cause text "Unknown failure", in both cases.
C13_NoFailureReason ==
  lastCause \in AbsentReasonCauses \cup NullReasonCauses =>
    /\ pc \notin RetryPath
    /\ pc = "FAILED" => (error = "NonCapacityFailure" /\ errCause = "Unknown failure")

\* structured-looking cause texts that are not JSON
MalformedCauses == {"{not valid json", "{\"FailureReason\":\"CapacityError"}

\* C14: a cause that starts with "{" and does not parse ends the run with an
\* error of its own: it is not retried (no increment, wait or resubmission)
\* and not reported as NonCapacityFailure or MaxRetriesExceeded.
C14_MalformedCause ==
  lastCause \in MalformedCauses =>
    /\ pc \in {"RouteCauseFormat", "ParseErrorCause", "FAILED", "TIMED_OUT"}
    /\ HasCounter => retryCount = submissions[Len(submissions)].attempt
    /\ waits = Len(submissions) - 1
    /\ pc = "FAILED" =>
         /\ error = "States.IntrinsicFailure"
         /\ error \notin {"NonCapacityFailure", "MaxRetriesExceeded", "States.Timeout"}

C14_Witness ==
  /\ pc = "FAILED"
  /\ lastCause = "{\"FailureReason\":\"CapacityError"
  /\ error = "States.IntrinsicFailure"
  /\ Len(submissions) = 2

\* the value selectParams left for field k, at the place the variant puts it
SelectedValue(k) ==
  IF variant = 1 THEN state.v["input." \o k] ELSE state.v[k]

\* C15: for each of the three fields the resolved value is the caller's value
\* when the caller supplied the key and the default when the key is absent;
\* without any override the resolved parameters are the defaults.
C15_MergePerKey ==
  /\ pc = "SelectParams" =>
       \A k \in ParamFields :
         state.v.merged.v[k] =
           (IF HasKey(callerInput, k) THEN callerInput.v[k] ELSE DEFAULT_PARAMS.v[k])
  /\ pc = "InitRetryCounter" =>
       /\ \A k \in ParamFields :
            SelectedValue(k) =
              (IF HasKey(callerInput, k) THEN callerInput.v[k] ELSE DEFAULT_PARAMS.v[k])
       /\ (\A k \in ParamFields : ~HasKey(callerInput, k)) =>
            /\ SelectedValue("instance_type") = JStr("ml.g5.xlarge")
            /\ SelectedValue("input_prefix") = JStr("incoming/")
            /\ SelectedValue("output_prefix") = JStr("processed/runs/1/")

C15_Witness ==
  /\ pc = "InitRetryCounter"
  /\ variant = 2
  /\ HasKey(callerInput, "instance_type") /\ ~HasKey(callerInput, "output_prefix")
  /\ state.v.instance_type = JStr("ml.g4dn.xlarge")
  /\ state.v.output_prefix = JStr("processed/runs/1/")

\* C16 as stated: a key supplied with an empty string resolves to the default;
\* resolve(O)[k] = O[k] only if k is in O and O[k] is not empty.
C16_EmptyOverrideFallsBack ==
  \A i \in DOMAIN submissions : \A k \in ParamFields :
    submissions[i].params[k] =
      (IF HasKey(callerInput, k) /\ callerInput.v[k] # JStr("")
       THEN callerInput.v[k] ELSE DEFAULT_PARAMS.v[k])

\* C16 as amended: a key supplied with an empty string resolves to the empty
\* string; resolve(O)[k] = O[k] whenever k is in O, else the default.
C16_EmptyOverrideKept ==
  /\ pc = "PrepareBatchInput" /\ variant = 2 =>
       \A k \in ParamFields :
         /\ HasKey(callerInput, k) => state.v.input.v[k] = callerInput.v[k]
         /\ ~HasKey(callerInput, k) => state.v.input.v[k] = DEFAULT_PARAMS.v[k]
  /\ \A i \in DOMAIN submissions :
       (HasKey(callerInput, "input_prefix") /\ callerInput.v.input_prefix = JStr("")) =>
         /\ submissions[i].params.input_prefix = JStr("")
         /\ submissions[i].s3Uri = "s3://dotsocr-input-documents/"

C16_Witness ==
  /\ Len(submissions) = 2
  /\ HasKey(callerInput, "input_prefix")
  /\ callerInput.v.input_prefix = JStr("")
  /\ submissions[2].s3Uri = "s3://dotsocr-input-documents/"

\* the length the source's comment calls safe for a job name
MaxJobNameLen == 63

\* the name the variant composes around the base: the name of the empty base
NameAround(i) ==
  TransformJobName(variant, "", IF i = 3 THEN nmOther ELSE execName,
                   JObj([retryCount |-> JNum(nmAttempts[IF i = 1 THEN 1 ELSE 2])]))

\* C17: in either variant the base contributes its first min(20, len(base))
\* characters to the job name, never more than 20.
C17_BaseTruncated ==
  \A i \in DOMAIN nmNames :
    nmNames[i] = Substring0(jobNameBase, 20) \o NameAround(i)

\* C18: for every base, execution name (a 36-character UUID included) and
\* attempt number 0..10 the job name has at most 63 characters.
C18_NameLengthBound ==
  \A i \in DOMAIN nmNames : Len(nmNames[i]) <= MaxJobNameLen

\* C19: with the same base and deployment version, submissions of runs with
\* different execution names have different job names, whatever the attempts.
C19_NoCollisionAcrossExecutions ==
  (nmNames # <<>> /\ nmOther # execName) =>
    /\ nmNames[1] # nmNames[3]
    /\ nmNames[2] # nmNames[3]

C19_Witness ==
  /\ nmNames # <<>>
  /\ variant = 2
  /\ execName = "batch-a" /\ nmOther = "batch-a1"
  /\ nmAttempts = <<10, 0>>
  /\ nmNames[1] = "DotsOCR-dots-v1-batch-a-10"
  /\ nmNames[3] = "DotsOCR-dots-v1-batch-a1-0"

\* the run-level timeout can fire here, and a timed-out run shows its own error
TimeoutCovers ==
  /\ pc \notin Terminal => ENABLED timeout
  /\ pc = "TIMED_OUT" =>
       /\ error = "States.Timeout"
       /\ error \notin {"MaxRetriesExceeded", "NonCapacityFailure"}
       /\ timedOutIn \notin Terminal

\* a step of a timed-out run submits, increments and classifies nothing
TimedOutStepKeepsRun ==
  pc = "TIMED_OUT" =>
    /\ pc' = pc
    /\ submissions' = submissions
    /\ state' = state
    /\ waits' = waits
    /\ lastCause' = lastCause
    /\ error' = error
    /\ errCause' = errCause

\* C20: the 2-hour timeout can fire from every non-terminal state (resolving
\* parameters, job in flight, evaluating, waiting to retry); the run then ends
\* timed out, an error distinct from MaxRetriesExceeded and NonCapacityFailure,
\* and nothing is submitted, incremented or classified afterwards.
C20_RunTimeout == [](TimeoutCovers) /\ [][TimedOutStepKeepsRun]_vars

C20_Witness ==
  /\ pc = "TIMED_OUT"
  /\ timedOutIn = "TransformWait"
  /\ error = "States.Timeout"
  /\ Len(submissions) = 2
  /\ lateSignals = <<"TIMED_OUT">>

\* the malformed-cause condition: the parse of a structured cause failed
MalformedCauseCondition ==
  /\ error = "States.IntrinsicFailure"
  /\ Classify(lastCause).kind = "malformed"

\* C21: a run that ends, ends in exactly one of Succeeded, NonCapacityFailure,
\* MaxRetriesExceeded, TimedOut or the malformed-cause condition, and with no
\* other error.
C21_ClosedOutcomes ==
  /\ pc = "TIMED_OUT" => error = "States.Timeout"
  /\ pc = "SUCCEEDED" => error = ""
  /\ pc = "FAILED" =>
       \/ error \in {"NonCapacityFailure", "MaxRetriesExceeded"}
       \/ MalformedCauseCondition

\* the execution input of the scenario, and the capacity-error causes
ScenarioInput == JObj([input_prefix |-> JStr("incoming/batchA/")])

CapacityCauses ==
  {c \in Causes : Classify(c).kind = "retryable" /\ Contains(c, "CapacityError")}

ScenarioHappened ==
  /\ callerInput = ScenarioInput
  /\ Len(outcome) >= 2
  /\ outcome[1] = "Failed"
  /\ lastCause \in CapacityCauses
  /\ outcome[2] = "Succeeded"
  /\ pc # "TIMED_OUT"

\* C22: with input {input_prefix: "incoming/batchA/"}, a first submission that
\* fails with a capacity error and a second that succeeds, the run makes
\* exactly 2 submissions, both with input_prefix "incoming/batchA/",
\* output_prefix "processed/runs/1/" and instance type "ml.g5.xlarge", and
\* ends Succeeded after the submission of attempt 1.
C22_Scenario ==
  ScenarioHappened =>
    /\ pc = "SUCCEEDED"
    /\ error = ""
    /\ Len(submissions) = 2
    /\ \A i \in {1, 2} :
         /\ submissions[i].params.input_prefix = JStr("incoming/batchA/")
         /\ submissions[i].params.output_prefix = JStr("processed/runs/1/")
         /\ submissions[i].params.instance_type = JStr("ml.g5.xlarge")
         /\ submissions[i].attempt = i - 1
    /\ waits = 1
    /\ state.v.S3OutputPath = JStr("s3://dotsocr-processed-results/processed/runs/1/")

C22_Witness ==
  /\ ScenarioHappened
  /\ variant = 2
  /\ pc = "SUCCEEDED"
  /\ Len(submissions) = 2
  /\ submissions[2].attempt = 1

\* what a run r that proceeds alone shows: its own parameters, attempts
\* 0, 1, ... in order, one wait per retry, its own execution name in its job
\* names, and an outcome that follows from its own last cause
RunsAsAlone(r) ==
  /\ Len(r.outcome) = Len(r.submissions)
  /\ \A k \in DOMAIN r.submissions :
       /\ r.submissions[k].attempt = k - 1
       /\ r.submissions[k].params = ExpectedParams(r.callerInput)
       /\ Contains(r.submissions[k].jobName, r.execName)
       /\ k < Len(r.submissions) => r.outcome[k] = "Failed"
  /\ r.submissions # <<>> => r.waits \in {Len(r.submissions) - 1, Len(r.submissions)}
  /\ HasKey(r.state, "retryCount") /\ r.submissions # <<>> =>
       r.state.v.retryCount.v \in {Len(r.submissions) - 1, Len(r.submissions)}
  /\ r.pc = "SUCCEEDED" => r.outcome[Len(r.outcome)] = "Succeeded"
  /\ r.pc = "FAILED" /\ r.error = "MaxRetriesExceeded" =>
       /\ Len(r.submissions) = MaxRetryAttempts
       /\ Classify(r.lastCause).kind = "retryable"
  /\ r.pc = "FAILED" /\ r.error = "NonCapacityFailure" =>
       /\ Classify(r.lastCause).kind = "terminal"
       /\ r.errCause = Classify(r.lastCause).reason

\* the two runs never submit the same job name
NamesDisjoint ==
  \A i \in DOMAIN submissions : \A j \in DOMAIN peer[1].submissions :
    submissions[i].jobName # peer[1].submissions[j].jobName

\* a step belongs to one run and leaves the other run as it was
StepOfOneRun ==
  peer # <<>> =>
    \/ peer' = peer
    \/ peer' = <<RunState>> /\ RunState' = peer[1]

\* C23: two runs with different execution names that interleave arbitrarily
\* each show what they would show alone (counter, parameters, submissions,
\* outcome); a step of one run never changes the other, and the two runs never
\* submit the same job name.
C23_RunsIndependent ==
  /\ [](peer # <<>> => (RunsAsAlone(RunState) /\ RunsAsAlone(peer[1]) /\ NamesDisjoint))
  /\ [][StepOfOneRun]_vars

C23_Witness ==
  /\ peer # <<>>
  /\ variant = 2
  /\ execName # peer[1].execName
  /\ pc = "WaitBeforeRetry" /\ state.v.retryCount.v = 2
  /\ peer[1].pc = "TransformWait" /\ peer[1].state.v.retryCount.v = 2
  /\ Len(submissions) = 2 /\ Len(peer[1].submissions) = 3
  /\ submissions[2].jobName = "DotsOCR-dots-v1-batch-a-1"
  /\ peer[1].submissions[3].jobName =
       "DotsOCR-dots-v1-7f3c1e9a-5b2d-4c8e-9f10-2a6b7c8d9e0f-2"

\* `$` as variant v leaves it for prepareBatchInput on a first pass: defaults
\* injected, merged, selected, counter initialised
ResolvedState(v, input) ==
  LET withDefaults == PutKey(input, "defaults", DEFAULT_PARAMS)
      merged == JsonMerge(DEFAULT_PARAMS, withDefaults)
  IN JObj([retryCount |-> JNum(0),
           input |-> IF v = 1 THEN SelectedParams1(merged) ELSE SelectedParams2(merged)])

\* the paths prepareBatchInput reads resolve in st
CanPrepare(st) ==
  /\ \A k \in ParamFields : PathExists(st, <<"input", k>>)
  /\ PathExists(st, <<"retryCount">>)

\* C24: on the same execution input the two variants go through the same
\* controller states: where one variant passes prepareBatchInput and submits,
\* so does the other.
C24_VariantsEquivalent ==
  (pc = "PrepareBatchInput" /\ waits = 0) =>
    /\ state = ResolvedState(variant, callerInput)
    /\ CanPrepare(state) <=> CanPrepare(ResolvedState(3 - variant, callerInput))

\* C25: a retryable failure of the submission made at retryCount = n leads to
\* MaxRetriesExceeded only when n >= 10; for n < 10 the run waits and resubmits.
C25_LimitOnPreIncrement ==
  /\ pc = "MaxRetriesExceeded" =>
       submissions[Len(submissions)].attempt >= MaxRetryAttempts
  /\ (pc = "WaitBeforeRetry" /\ submissions # <<>>) =>
       submissions[Len(submissions)].attempt < MaxRetryAttempts
  /\ (pc = "FAILED" /\ error = "MaxRetriesExceeded") =>
       submissions[Len(submissions)].attempt >= MaxRetryAttempts

\* a step changes the counter only in incrementRetry, and then by one
CounterStep ==
  /\ (~HasCounter /\ HasCounter') => retryCount' = 0
  /\ (HasCounter /\ HasCounter') =>
       \/ retryCount' = retryCount
       \/ pc = "IncrementRetry" /\ pc' = "CheckRetryLimit" /\ retryCount' = retryCount + 1
  /\ (HasCounter /\ HasCounter' /\ pc = "IncrementRetry" /\ pc' = "CheckRetryLimit") =>
       retryCount' = retryCount + 1

\* C26: retryCount is 0 at the first submission, changes only in the retry step
\* that follows a retryable failure, each time by exactly +1; submission,
\* classification, the wait and input preparation leave it unchanged.
C26_CounterMutation ==
  /\ [](submissions # <<>> => submissions[1].attempt = 0)
  /\ [][CounterStep]_vars

C26_Witness ==
  /\ pc = "CheckRetryLimit"
  /\ HasCounter
  /\ retryCount = 3
  /\ Len(submissions) = 3
  /\ submissions[3].attempt = 2

\* the number of waits completed matches the number of submissions made
WaitsMatchSubmissions ==
  /\ submissions = <<>> => waits = 0
  /\ submissions # <<>> =>
       \/ waits = Len(submissions) - 1
       \/ Position \in {"PrepareBatchInput", "Transform"} /\ waits = Len(submissions)

\* a submission follows as many waits as submissions were made before it; the
\* wait changes neither `$` nor the submissions and leads to input preparation;
\* no step returns to parameter resolution
WaitStep ==
  /\ Len(submissions') = Len(submissions) + 1 => waits = Len(submissions)
  /\ (pc = "WaitBeforeRetry" /\ pc' \notin {"WaitBeforeRetry", "TIMED_OUT"}) =>
       /\ pc' = "PrepareBatchInput"
       /\ waits' = waits + 1
       /\ state' = state
       /\ submissions' = submissions
  /\ waits' # waits => pc = "WaitBeforeRetry"
  /\ pc' \in {"InjectDefaults", "MergeParams", "SelectParams", "InitRetryCounter"} =>
       submissions' = <<>> /\ waits' = 0

\* C27: every submission but the first is preceded by exactly one wait, the
\* first by none; the wait leaves retryCount and params unchanged, submits
\* nothing and does not resolve the parameters again.
C27_BackoffPlacement == [](WaitsMatchSubmissions) /\ [][WaitStep]_vars

C27_Witness ==
  /\ pc = "TransformWait"
  /\ Len(submissions) = 3
  /\ waits = 2
  /\ submissions[3].params = submissions[1].params

\* C28: when the service signals the end of every job and the wait elapses,
\* every run eventually reaches a terminal outcome; there is no infinite
\* submit/fail/retry cycle.
C28_Terminates == <>(pc \in Terminal)

C28_Witness ==
  /\ pc = "FAILED"
  /\ error = "MaxRetriesExceeded"
  /\ Len(submissions) = MaxRetryAttempts
  /\ waits = MaxRetryAttempts - 1

\* C29: for every execution input holding any subset of the three fields, in
\* each variant, the run passes defaults injection, merge, selection, counter
\* initialisation and input preparation and reaches its first submission with
\* the three fields defined under $.input; no run fails before it.
C29_ResolutionNeverFails ==
  /\ (pc = "FAILED" /\ callerInput \in FieldInputs) => submissions # <<>>
  /\ (pc = "PrepareBatchInput" /\ callerInput \in FieldInputs) =>
       \A k \in ParamFields : PathExists(state, <<"input", k>>)

\* C30: once the counter is set up, the number of submissions made is
\* retryCount or retryCount + 1, and retryCount + 1 while a job is in flight
\* or the run has succeeded; the k-th submission carries attempt k - 1.
C30_CounterSubmissionLink ==
  /\ HasCounter =>
       /\ Len(submissions) \in {retryCount, retryCount + 1}
       /\ Position = "TransformWait" => Len(submissions) = retryCount + 1
  /\ pc = "SUCCEEDED" =>
       Len(submissions) = submissions[Len(submissions)].attempt + 1
  /\ \A k \in DOMAIN submissions : submissions[k].attempt = k - 1

C30_Witness ==
  /\ pc = "TransformWait"
  /\ HasCounter
  /\ retryCount = 4
  /\ Len(submissions) = 5
  /\ submissions[5].attempt = 4

\* the execution input cut down to the three fields
ThreeFields(O) ==
  JObj([k \in {f \in ParamFields : HasKey(O, f)} |-> O.v[k]])

\* C31: keys of the execution input other than the three fields (retryCount,
\* defaults, merged, input, cause) change nothing: after counter
\* initialisation `$` is what the input cut down to the three fields gives,
\* with retryCount = 0, and every submission carries exactly the three
\* resolved fields.
C31_ExtraKeysIgnored ==
  /\ (pc = "PrepareBatchInput" /\ waits = 0) =>
       /\ state = ResolvedState(variant, ThreeFields(callerInput))
       /\ state.v.retryCount = JNum(0)
  /\ \A i \in DOMAIN submissions :
       /\ DOMAIN submissions[i].params = ParamFields
       /\ submissions[i].params = ExpectedParams(ThreeFields(callerInput))
  /\ submissions # <<>> => submissions[1].attempt = 0
  /\ (Position \in {"Transform", "TransformWait"} /\ HasCounter) =>
       state = PreparedInput(JObj([retryCount |-> JNum(retryCount),
                                   input |-> ResolvedState(variant,
                                               ThreeFields(callerInput)).v.input]))

C31_Witness ==
  /\ callerInput \in ExtraKeyInputs
  /\ HasKey(callerInput, "defaults")
  /\ pc = "TransformWait"
  /\ Len(submissions) = 2
  /\ submissions[2].params.instance_type = JStr("ml.g5.xlarge")
  /\ submissions[2].params.output_prefix = JStr("processed/batchA/")

\* workflow states that classify the failure the task caught
ClassifyingStates ==
  {"RouteCauseFormat", "ParseErrorCause", "CheckCapacityError",
   "CheckFailureReasonPresent", "CheckThrottling", "NonCapacityFailureParsed",
   "NonCapacityFailureString", "FailureReasonUnknown"}

\* C32: when a job is submitted `$` holds the counter and the resolved
\* parameters and no cause; the retry step leaves only retryCount and input;
\* the cause that is classified is the raw cause of the failure just caught.
C32_NoStaleCause ==
  /\ (Position \in {"Transform", "TransformWait"} /\ HasCounter) =>
       DOMAIN state.v = ParamFields \cup {"retryCount", "input"}
  /\ (Position \in {"CheckRetryLimit", "WaitBeforeRetry", "MaxRetriesExceeded",
                    "PrepareBatchInput"} /\ HasCounter) =>
       DOMAIN state.v = {"retryCount", "input"}
  /\ Position \in ClassifyingStates =>
       /\ state.v.cause.v.Cause = JStr(lastCause)
       /\ HasKey(state.v.cause, "Parsed") =>
            state.v.cause.v.Parsed = StringToJson(lastCause).val

C32_Witness ==
  /\ pc = "Transform"
  /\ Len(submissions) = 1
  /\ lastCause = "ThrottlingException"
  /\ ~HasKey(state, "cause")
  /\ state.v.retryCount = JNum(1)

\* causes that carry the retry pattern of the other format
CrossFormatStructured == {"{\"FailureReason\":\"ThrottlingException: slow down\"}"}

CrossFormatPlain == {"InsufficientCapacityError: none left"}

\* C33: a structured cause whose FailureReason contains "ThrottlingException"
\* but not "CapacityError", and a plain cause that contains "CapacityError" but
\* not "ThrottlingException", are not retried: the run ends in
\* NonCapacityFailure.
C33_FormatSpecificPatterns ==
  /\ lastCause \in CrossFormatStructured =>
       /\ Position \in {"RouteCauseFormat", "ParseErrorCause", "CheckCapacityError",
                        "CheckFailureReasonPresent", "NonCapacityFailureParsed",
                        "FAILED"}
       /\ pc = "FAILED" =>
            error = "NonCapacityFailure" /\ errCause = "ThrottlingException: slow down"
  /\ lastCause \in CrossFormatPlain =>
       /\ Position \in {"RouteCauseFormat", "CheckThrottling",
                        "NonCapacityFailureString", "FAILED"}
       /\ pc = "FAILED" => error = "NonCapacityFailure" /\ errCause = lastCause
  /\ lastCause \in CrossFormatStructured \cup CrossFormatPlain =>
       waits = Len(submissions) - 1

C33_Witness ==
  /\ pc = "FAILED"
  /\ lastCause \in CrossFormatStructured
  /\ error = "NonCapacityFailure"
  /\ errCause = "ThrottlingException: slow down"
  /\ Len(submissions) = 2

====
